---------------------------- MODULE Spec2Model ----------------------------
(***************************************************************************)
(* Model of the orchestrator (server.js): the two composed routes          *)
(*   GET /disponibilidad               catalog + inventory, joined         *)
(*   GET /recetas/:id_receta/validacion recipe, then one stock fetch per   *)
(*                                      ingredient, joined                 *)
(* and of the pure computations they use (cantidadField, the per-item      *)
(* reconciliation, the suggested status, mapUpstreamError).                *)
(*                                                                         *)
(* One request is followed from its arrival to its response and on until   *)
(* every upstream call it issued has settled.  A step of the model is one  *)
(* turn of the event loop: the arrival of the request, or the completion   *)
(* of one upstream call together with every promise reaction it triggers.  *)
(***************************************************************************)
EXTENDS Integers, Sequences, FiniteSets, TLC

VARIABLES
    route,      \* which handler serves the request: "none" before it arrives
    query,      \* req.query.id_producto of /disponibilidad ("" = missing/empty)
    pc,         \* position of the handler: "idle", "join", "receta", "items", "sent"
    catalogo,   \* the catalog call (with its .then/.catch chain) of /disponibilidad
    inventario, \* the inventory call of /disponibilidad
    recetas,    \* the recipe call of /validacion
    receta,     \* the decoded recipe, once fetched
    stock,      \* the per-ingredient async functions of /validacion, in ingredient order
    res,        \* the responses sent for the request, in order
    issued,     \* log of the upstream calls issued, in order
    join,       \* the Promise.all the handler awaits
    s,          \* pure computations: the stock entry given to cantidadField
    it,         \* pure computations: the ingredient
    stockList,  \* pure computations: the stock listing of the ingredient
    out         \* pure computations: the result, once computed

reqVars  == <<route, query, pc, catalogo, inventario, recetas, receta, stock, res, issued, join>>
calcVars == <<s, it, stockList, out>>
vars     == <<route, query, pc, catalogo, inventario, recetas, receta, stock, res, issued, join,
              s, it, stockList, out>>

-----------------------------------------------------------------------------
(* Bounds of the model.                                                    *)
MaxIngr  == 2   \* ingredients in a recipe's detalle
MaxStock == 2   \* entries in a stock listing given to the reconciliation
MaxQty   == 2   \* largest quantity in a stock entry or an ingredient

-----------------------------------------------------------------------------
(* JavaScript values.  A JSON field is undefined (absent), null, a number  *)
(* or a text that is no number; a JS number is an integer or NaN.          *)
Undef    == [t |-> "undefined", v |-> 0]
Null     == [t |-> "null", v |-> 0]
Num(n)   == [t |-> "number", v |-> n]
Txt      == [t |-> "string", v |-> 0]
NaN      == [t |-> "NaN", v |-> 0]

IsNum(x) == x.t = "number"

\* x ?? y
Coalesce(x, y) == IF x.t \in {"undefined", "null"} THEN y ELSE x

\* Number(x): undefined and non-numeric text give NaN, null gives 0
Number(x) ==
    CASE x.t = "number"    -> x
      [] x.t = "null"      -> Num(0)
      [] OTHER             -> NaN

\* a + b on JS numbers
Plus(a, b) == IF IsNum(a) /\ IsNum(b) THEN Num(a.v + b.v) ELSE NaN

\* a >= b and a > b on JS numbers: false as soon as one side is NaN
Gte(a, b) == IsNum(a) /\ IsNum(b) /\ a.v >= b.v
Gt(a, b)  == IsNum(a) /\ IsNum(b) /\ a.v > b.v

-----------------------------------------------------------------------------
(* Payloads.  A stock listing is what the inventory service answered: an   *)
(* array of entries, JSON null, or some other object.                      *)
Sucursales == {"S1", "S2"}
NoSucursal == "null"      \* JS null in id_sucursal_sugerida

Entry(suc, ca, sa, c) ==
    [id_sucursal |-> suc, cantidad_actual |-> ca, stock_actual |-> sa, cantidad |-> c]

Arr(q)     == [t |-> "array", arr |-> q]
NullList   == [t |-> "null", arr |-> <<>>]
ObjectList == [t |-> "object", arr |-> <<>>]

\* (stockList || [])
OrEmpty(p) == IF p.t = "null" THEN <<>> ELSE p.arr

\* cantidadField that forgets the third field name
cantidadField_TwoNames(e) ==
    Coalesce(Coalesce(e.cantidad_actual, e.stock_actual), Num(0))

\* server.js:135  s.cantidad_actual ?? s.stock_actual ?? s.cantidad ?? 0
cantidadField(e) ==
    Coalesce(Coalesce(Coalesce(e.cantidad_actual, e.stock_actual), e.cantidad), Num(0))

\* a reduce whose callback forgets the accumulator
RECURSIVE Reduce_NoAcc(_, _)
Reduce_NoAcc(acc, q) ==
    IF q = <<>> THEN acc
    ELSE Reduce_NoAcc(Number(cantidadField(Head(q))), Tail(q))

\* server.js:138  (stockList || []).reduce((acc, s) => acc + Number(cantidadField(s)), 0)
RECURSIVE Reduce(_, _)
Reduce(acc, q) ==
    IF q = <<>> THEN acc
    ELSE Reduce(Plus(acc, Number(cantidadField(Head(q)))), Tail(q))

total(p) == Reduce(Num(0), OrEmpty(p))

\* server.js:141  the predicate given to find
Qualifies_Swapped(e, ingr) == Gte(Number(ingr.cantidad), Number(cantidadField(e)))
Qualifies(e, ingr) == Gte(Number(cantidadField(e)), Number(ingr.cantidad))

\* a search that keeps the last qualifying entry in place of the first
RECURSIVE Find_Last(_, _)
Find_Last(q, ingr) ==
    IF q = <<>> THEN NoSucursal
    ELSE IF Find_Last(Tail(q), ingr) # NoSucursal THEN Find_Last(Tail(q), ingr)
    ELSE IF Qualifies(Head(q), ingr) THEN Head(q).id_sucursal
    ELSE NoSucursal

\* server.js:140  (stockList || []).find(...)?.id_sucursal ?? null
RECURSIVE Find(_, _)
Find(q, ingr) ==
    IF q = <<>> THEN NoSucursal
    ELSE IF Qualifies(Head(q), ingr) THEN Head(q).id_sucursal
    ELSE Find(Tail(q), ingr)

sugerida(p, ingr) == Find(OrEmpty(p), ingr)

\* server.js:144  the item returned by the async function of one ingredient
Item(ingr, p) ==
    [id_producto          |-> ingr.id_producto,
     solicitado           |-> Number(ingr.cantidad),
     disponible           |-> total(p),
     id_sucursal_sugerida |-> sugerida(p, ingr)]

\* ok with some in place of every
ok_Some(items) == \E k \in 1..Len(items) : Gte(items[k].disponible, items[k].solicitado)

\* ok that asks for at least one item
ok_NonEmpty(items) ==
    /\ Len(items) > 0
    /\ \A k \in 1..Len(items) : Gte(items[k].disponible, items[k].solicitado)

\* server.js:153  items.every((i) => i.disponible >= i.solicitado)
ok(items) == \A k \in 1..Len(items) : Gte(items[k].disponible, items[k].solicitado)

\* parcial with >= 0 in place of > 0
parcial_Gte(items) == ~ok(items) /\ \E k \in 1..Len(items) : Gte(items[k].disponible, Num(0))

\* server.js:154  !ok && items.some((i) => i.disponible > 0)
parcial(items) == ~ok(items) /\ \E k \in 1..Len(items) : Gt(items[k].disponible, Num(0))

\* server.js:158  ok ? "VALIDADA" : parcial ? "PARCIAL" : "RECHAZADA"
estado_sugerido(items) ==
    IF ok(items) THEN "VALIDADA" ELSE IF parcial(items) THEN "PARCIAL" ELSE "RECHAZADA"

-----------------------------------------------------------------------------
(* Failures.  An axios error carries the upstream response when one was    *)
(* received and the request when one was sent; any other error (an error   *)
(* raised before the request is sent, a TypeError of the handler) carries  *)
(* neither.  text is String(e).                                            *)
HttpError(st, data) ==
    [response |-> [status |-> st, data |-> data], request |-> "ClientRequest",
     text |-> "AxiosError: Request failed"]
Unreachable == [request |-> "ClientRequest", text |-> "AxiosError: timeout exceeded"]
SetupError  == [text |-> "TypeError: Invalid URL"]
TypeError   == [text |-> "TypeError: cannot read properties"]

\* a mapper that looks at e.request before e.response
mapUpstreamError_RequestFirst(e) ==
    IF "request" \in DOMAIN e THEN
        [status |-> 504, body |-> [error |-> "Upstream timeout/unreachable"]]
    ELSE IF "response" \in DOMAIN e THEN
        [status |-> e.response.status,
         body   |-> [error |-> "Upstream error",
                     upstream_status |-> e.response.status,
                     upstream_body |-> e.response.data]]
    ELSE
        [status |-> 500, body |-> [error |-> "Orchestrator error", detail |-> e.text]]

\* a mapper that answers 502 for every upstream error status
mapUpstreamError_BadGateway(e) ==
    IF "response" \in DOMAIN e THEN
        [status |-> 502,
         body   |-> [error |-> "Upstream error",
                     upstream_status |-> 502,
                     upstream_body |-> e.response.data]]
    ELSE IF "request" \in DOMAIN e THEN
        [status |-> 504, body |-> [error |-> "Upstream timeout/unreachable"]]
    ELSE
        [status |-> 500, body |-> [error |-> "Orchestrator error", detail |-> e.text]]

\* server.js:64
mapUpstreamError(e) ==
    IF "response" \in DOMAIN e THEN
        [status |-> e.response.status,
         body   |-> [error |-> "Upstream error",
                     upstream_status |-> e.response.status,
                     upstream_body |-> e.response.data]]
    ELSE IF "request" \in DOMAIN e THEN
        [status |-> 504, body |-> [error |-> "Upstream timeout/unreachable"]]
    ELSE
        [status |-> 500, body |-> [error |-> "Orchestrator error", detail |-> e.text]]

-----------------------------------------------------------------------------
(* Promises.                                                               *)
Idle         == [state |-> "idle"]
Pending      == [state |-> "pending"]
Fulfilled(v) == [state |-> "fulfilled", value |-> v]
Rejected(e)  == [state |-> "rejected", reason |-> e]

(* What the upstream services may answer.  Failures: an error status with  *)
(* its body, no answer at all, or a request that could not be sent.        *)
Failures == {HttpError(404, "not found"), HttpError(500, "internal error"),
             Unreachable, SetupError}

\* the opaque product of the catalog
Producto == [id_producto |-> "A", nombre |-> "Paracetamol"]

\* a stock entry as one upstream names the quantity
E1(suc, n) == Entry(suc, Num(n), Undef, Undef)

\* stock listings answered to the requests of the model
SampleStock ==
    {Arr(<<>>), NullList, ObjectList,
     Arr(<<E1("S1", 1)>>),
     Arr(<<E1("S1", 1), E1("S2", 2)>>),
     Arr(<<E1("S1", 0 - 1)>>)}

Productos  == {"A", "B"}
Cantidades == {Undef, Num(0), Num(2)}
Ingredientes == [id_producto : Productos, cantidad : Cantidades]

\* sequences over S of length at most n
SeqUpTo(S, n) == UNION {[1..m -> S] : m \in 0..n}

\* recipes answered by the recipes service: JSON null, a recipe without
\* detalle, a recipe with a detalle of at most MaxIngr ingredients
Recetas ==
    {Null, [id_receta |-> "R1"]}
    \cup {[id_receta |-> "R1", detalle |-> d] : d \in SeqUpTo(Ingredientes, MaxIngr)}

\* receta.detalle || []
Detalle(r) == IF "detalle" \in DOMAIN r THEN r.detalle ELSE <<>>

Outcomes(payloads) == {Fulfilled(v) : v \in payloads} \cup {Rejected(e) : e \in Failures}

-----------------------------------------------------------------------------
(* The promise chains of the handlers.                                     *)

\* the catalog chain without its .catch
CatalogChain_NoCatch(p) == p

\* the catalog chain with a .catch that turns every failure into null
CatalogChain_CatchAll(p) == IF p.state = "rejected" THEN Fulfilled(Null) ELSE p

\* server.js:96  http.get(catalog).then((r) => r.data).catch(404 -> null)
CatalogChain(p) ==
    IF p.state = "rejected" /\ "response" \in DOMAIN p.reason
       /\ p.reason.response.status = 404
    THEN Fulfilled(Null)
    ELSE p

\* the inventory chain with a .catch that answers an empty listing
InventoryChain_CatchAll(p) == IF p.state = "rejected" THEN Fulfilled(Arr(<<>>)) ELSE p

\* server.js:104  http.get(inventory).then((r) => r.data)
InventoryChain(p) == p

\* the async function of one ingredient made best-effort: a failed stock
\* lookup counts as an empty listing
ItemPromise_BestEffort(ingr, p) ==
    IF p.state = "fulfilled" THEN
        IF p.value.t = "object" THEN Rejected(TypeError) ELSE Fulfilled(Item(ingr, p.value))
    ELSE IF p.state = "rejected" THEN Fulfilled(Item(ingr, Arr(<<>>)))
    ELSE p

\* server.js:130  the async function of one ingredient: the stock listing is
\* awaited, then reduced; reduce on a payload that is no array throws
ItemPromise(ingr, p) ==
    IF p.state = "fulfilled" THEN
        IF p.value.t = "object" THEN Rejected(TypeError) ELSE Fulfilled(Item(ingr, p.value))
    ELSE p

\* a join that waits for every promise to settle (Promise.allSettled, then
\* the first rejection by position)
PromiseAll_Settled(j, ps, who) ==
    IF j.state # "pending" THEN j
    ELSE IF \E k \in 1..Len(ps) : ps[k].state = "pending" THEN j
    ELSE IF \E k \in 1..Len(ps) : ps[k].state = "rejected"
         THEN LET f == CHOOSE k \in 1..Len(ps) :
                          /\ ps[k].state = "rejected"
                          /\ \A m \in 1..(k - 1) : ps[m].state # "rejected"
              IN  [state |-> "rejected", reason |-> ps[f].reason, from |-> f]
    ELSE Fulfilled([k \in 1..Len(ps) |-> ps[k].value])

\* a Promise.all that hands the values over last promise first
PromiseAll_Reversed(j, ps, who) ==
    IF j.state # "pending" THEN j
    ELSE IF who \in 1..Len(ps) /\ ps[who].state = "rejected"
         THEN [state |-> "rejected", reason |-> ps[who].reason, from |-> who]
    ELSE IF \A k \in 1..Len(ps) : ps[k].state = "fulfilled"
         THEN Fulfilled([k \in 1..Len(ps) |-> ps[Len(ps) + 1 - k].value])
    ELSE j

\* Promise.all: j is its state before promise number who of ps settled, ps
\* the promises after it did.  The first rejection rejects it; it is
\* fulfilled, with the values in the order of ps, once all are fulfilled
\* (at once for no promise at all).
PromiseAll(j, ps, who) ==
    IF j.state # "pending" THEN j
    ELSE IF who \in 1..Len(ps) /\ ps[who].state = "rejected"
         THEN [state |-> "rejected", reason |-> ps[who].reason, from |-> who]
    ELSE IF \A k \in 1..Len(ps) : ps[k].state = "fulfilled"
         THEN Fulfilled([k \in 1..Len(ps) |-> ps[k].value])
    ELSE j

\* server.js:111  res.json({ producto, sucursales })
DisponibilidadBody(vals) == [producto |-> vals[1], sucursales |-> vals[2]]

\* server.js:156  res.json({ id_receta, estado_sugerido, items })
ValidacionBody(r, items) ==
    [id_receta |-> r.id_receta, estado_sugerido |-> estado_sugerido(items), items |-> items]

Ok200(body) == [status |-> 200, body |-> body]

-----------------------------------------------------------------------------
(* GET /disponibilidad                                                     *)

idleCalc == /\ s = Entry("S1", Undef, Undef, Undef)
            /\ it = [id_producto |-> "A", cantidad |-> Undef]
            /\ stockList = Arr(<<>>)
            /\ out = Idle

Init ==
    /\ route = "none"
    /\ query = ""
    /\ pc = "idle"
    /\ catalogo = Idle
    /\ inventario = Idle
    /\ recetas = Idle
    /\ receta = Null
    /\ stock = <<>>
    /\ res = <<>>
    /\ issued = <<>>
    /\ join = Idle
    /\ idleCalc

\* a handler that awaits the catalog lookup before it issues the other
ReqDisponibilidad_Sequential(q) ==
    /\ pc = "idle"
    /\ route' = "disponibilidad"
    /\ query' = q
    /\ IF q = ""
       THEN /\ res' = Append(res, [status |-> 400, body |-> [error |-> "id_producto requerido"]])
            /\ pc' = "sent"
            /\ UNCHANGED <<catalogo, inventario, issued, join>>
       ELSE /\ catalogo' = Pending
            /\ inventario' = inventario
            /\ issued' = Append(issued, [svc |-> "catalogo", id |-> q])
            /\ join' = Pending
            /\ pc' = "join"
            /\ res' = res
    /\ UNCHANGED <<recetas, receta, stock, calcVars>>

\* the handler without its guard on id_producto
ReqDisponibilidad_NoGuard(q) ==
    /\ pc = "idle"
    /\ route' = "disponibilidad"
    /\ query' = q
    /\ catalogo' = Pending
    /\ inventario' = Pending
    /\ issued' = issued \o <<[svc |-> "catalogo", id |-> q],
                             [svc |-> "inventario", id |-> q]>>
    /\ join' = Pending
    /\ pc' = "join"
    /\ res' = res
    /\ UNCHANGED <<recetas, receta, stock, calcVars>>

\* server.js:90-109 up to the await: the guard on id_producto, then both
\* lookups are issued before the handler suspends.  distrito is only passed
\* on to the inventory service, whose answer is any of its outcomes.
ReqDisponibilidad(q) ==
    /\ pc = "idle"
    /\ route' = "disponibilidad"
    /\ query' = q
    /\ IF q = ""
       THEN /\ res' = Append(res, [status |-> 400, body |-> [error |-> "id_producto requerido"]])
            /\ pc' = "sent"
            /\ UNCHANGED <<catalogo, inventario, issued, join>>
       ELSE /\ catalogo' = Pending
            /\ inventario' = Pending
            /\ issued' = issued \o <<[svc |-> "catalogo", id |-> q],
                                     [svc |-> "inventario", id |-> q]>>
            /\ join' = Pending
            /\ pc' = "join"
            /\ res' = res
    /\ UNCHANGED <<recetas, receta, stock, calcVars>>

\* server.js:95-115 after the await: the response of the handler once its
\* Promise.all went from pending (j) to settled (j2)
DisponibilidadResponse(j, j2) ==
    IF j.state = "pending" /\ j2.state = "fulfilled"
    THEN <<Ok200(DisponibilidadBody(j2.value))>>
    ELSE IF j.state = "pending" /\ j2.state = "rejected"
    THEN <<mapUpstreamError(j2.reason)>>
    ELSE <<>>

\* one of the two lookups settles; the promise reactions run to the end
DisponibilidadSettles(cat2, inv2, who) ==
    LET j2 == PromiseAll(join, <<CatalogChain(cat2), InventoryChain(inv2)>>, who)
    IN  /\ catalogo' = cat2
        /\ inventario' = inv2
        /\ join' = j2
        /\ res' = res \o DisponibilidadResponse(join, j2)
        /\ pc' = IF j2.state = "pending" THEN pc ELSE "sent"
        /\ UNCHANGED <<route, query, recetas, receta, stock, issued, calcVars>>

CatalogoSettles(o) ==
    /\ route = "disponibilidad"
    /\ catalogo.state = "pending"
    /\ DisponibilidadSettles(o, inventario, 1)

InventarioSettles(o) ==
    /\ route = "disponibilidad"
    /\ inventario.state = "pending"
    /\ DisponibilidadSettles(catalogo, o, 2)

-----------------------------------------------------------------------------
(* GET /recetas/:id_receta/validacion                                      *)

\* server.js:119-126 up to the first await: the recipe is requested
ReqValidacion ==
    /\ pc = "idle"
    /\ route' = "validacion"
    /\ recetas' = Pending
    /\ issued' = Append(issued, [svc |-> "recetas", id |-> "R1"])
    /\ pc' = "receta"
    /\ UNCHANGED <<query, catalogo, inventario, receta, stock, res, join, calcVars>>

\* the promises Promise.all joins: one async function per ingredient
ItemPromises(r, st) == [k \in 1..Len(st) |-> ItemPromise(Detalle(r)[k], st[k])]

\* a handler that answers at every rejection, the join settled or not
ValidacionResponse_EveryFailure(r, j, j2) ==
    IF j.state = "pending" /\ j2.state = "fulfilled"
    THEN <<Ok200(ValidacionBody(r, j2.value))>>
    ELSE IF j2.state = "rejected"
    THEN <<mapUpstreamError(j2.reason)>>
    ELSE <<>>

\* server.js:153-165 after the second await
ValidacionResponse(r, j, j2) ==
    IF j.state = "pending" /\ j2.state = "fulfilled"
    THEN <<Ok200(ValidacionBody(r, j2.value))>>
    ELSE IF j.state = "pending" /\ j2.state = "rejected"
    THEN <<mapUpstreamError(j2.reason)>>
    ELSE <<>>

\* a handler that asks for the recipe a second time when the first call fails
RecetasSettles_Retry(o) ==
    /\ route = "validacion"
    /\ recetas.state = "pending"
    /\ IF o.state = "rejected" /\ Len(issued) = 1
       THEN /\ recetas' = Pending
            /\ issued' = Append(issued, [svc |-> "recetas", id |-> "R1"])
            /\ UNCHANGED <<receta, stock, res, join, pc>>
       ELSE IF o.state = "rejected" \/ o.value = Null
       THEN /\ recetas' = o
            /\ res' = Append(res, mapUpstreamError(
                         IF o.state = "rejected" THEN o.reason ELSE TypeError))
            /\ pc' = "sent"
            /\ UNCHANGED <<receta, stock, issued, join>>
       ELSE LET d  == Detalle(o.value)
                st == [k \in 1..Len(d) |-> Pending]
                j2 == PromiseAll(Pending, ItemPromises(o.value, st), 0)
            IN  /\ recetas' = o
                /\ receta' = o.value
                /\ stock' = st
                /\ issued' = issued \o
                      [k \in 1..Len(d) |-> [svc |-> "inventario", id |-> d[k].id_producto]]
                /\ join' = j2
                /\ res' = res \o ValidacionResponse(o.value, Pending, j2)
                /\ pc' = IF j2.state = "pending" THEN "items" ELSE "sent"
    /\ UNCHANGED <<route, query, catalogo, inventario, calcVars>>

\* server.js:124-151: the recipe call settles.  A failure goes to the catch;
\* so does the TypeError of reading detalle of a null recipe.  Otherwise
\* map() starts the async function of every ingredient, each of which runs
\* up to its await with its stock lookup issued, and the handler awaits
\* Promise.all (fulfilled at once when there is no ingredient).
RecetasSettles(o) ==
    /\ route = "validacion"
    /\ recetas.state = "pending"
    /\ recetas' = o
    /\ IF o.state = "rejected" \/ o.value = Null
       THEN /\ res' = Append(res, mapUpstreamError(
                         IF o.state = "rejected" THEN o.reason ELSE TypeError))
            /\ pc' = "sent"
            /\ UNCHANGED <<receta, stock, issued, join>>
       ELSE LET d  == Detalle(o.value)
                st == [k \in 1..Len(d) |-> Pending]
                j2 == PromiseAll(Pending, ItemPromises(o.value, st), 0)
            IN  /\ receta' = o.value
                /\ stock' = st
                /\ issued' = issued \o
                      [k \in 1..Len(d) |-> [svc |-> "inventario", id |-> d[k].id_producto]]
                /\ join' = j2
                /\ res' = res \o ValidacionResponse(o.value, Pending, j2)
                /\ pc' = IF j2.state = "pending" THEN "items" ELSE "sent"
    /\ UNCHANGED <<route, query, catalogo, inventario, calcVars>>

\* the stock lookup of ingredient k settles; its async function runs to its
\* end and the promise reactions run to the end
StockSettles(k, o) ==
    /\ route = "validacion"
    /\ k \in 1..Len(stock)
    /\ stock[k].state = "pending"
    /\ LET st == [stock EXCEPT ![k] = o]
           j2 == PromiseAll(join, ItemPromises(receta, st), k)
       IN  /\ stock' = st
           /\ join' = j2
           /\ res' = res \o ValidacionResponse(receta, join, j2)
           /\ pc' = IF j2.state = "pending" THEN pc ELSE "sent"
    /\ UNCHANGED <<route, query, catalogo, inventario, recetas, receta, issued, calcVars>>

Next ==
    \/ \E q \in {"", "A"} : ReqDisponibilidad(q)
    \/ \E o \in Outcomes({Producto}) : CatalogoSettles(o)
    \/ \E o \in Outcomes(SampleStock) : InventarioSettles(o)
    \/ ReqValidacion
    \/ \E o \in Outcomes(Recetas) : RecetasSettles(o)
    \/ \E k \in 1..MaxIngr, o \in Outcomes(SampleStock) : StockSettles(k, o)

Spec == Init /\ [][Next]_vars

\* one of the calls in flight settles
Settles ==
    \/ \E o \in Outcomes({Producto}) : CatalogoSettles(o)
    \/ \E o \in Outcomes(SampleStock) : InventarioSettles(o)
    \/ \E o \in Outcomes(Recetas) : RecetasSettles(o)
    \/ \E k \in 1..MaxIngr, o \in Outcomes(SampleStock) : StockSettles(k, o)

\* Every call issued settles: the client gives up a call that got no answer
\* after its timeout (server.js:43-46), so as long as a call is in flight
\* some call is answered, fails, or times out.  A settled call never is in
\* flight again, so this settles every call.  Nothing makes a request arrive.
Fairness == WF_vars(Settles)

FairSpec == Init /\ [][Next]_vars /\ Fairness

-----------------------------------------------------------------------------
(* The pure computations on their own, over all inputs within the bounds.  *)

\* what a quantity field of a stock entry may hold
RawQty == {Undef, Null, Txt} \cup {Num(n) : n \in (0 - 1)..MaxQty}

\* every stock entry of one branch: each of the three fields holds anything
AllEntries ==
    [id_sucursal : {"S1"}, cantidad_actual : RawQty, stock_actual : RawQty, cantidad : RawQty]

InitCampo ==
    /\ route = "none" /\ query = "" /\ pc = "calc"
    /\ catalogo = Idle /\ inventario = Idle /\ recetas = Idle /\ receta = Null
    /\ stock = <<>> /\ res = <<>> /\ issued = <<>> /\ join = Idle
    /\ s \in AllEntries
    /\ it = [id_producto |-> "A", cantidad |-> Undef]
    /\ stockList = Arr(<<>>)
    /\ out = Idle

\* server.js:138,141  Number(cantidadField(s)) of one entry
Coerce ==
    /\ pc = "calc"
    /\ out = Idle
    /\ out' = Fulfilled(Number(cantidadField(s)))
    /\ UNCHANGED <<reqVars, s, it, stockList>>

SpecCampo == InitCampo /\ [][Coerce]_vars

\* the stock entries of the listings: a branch and a quantity, numeric or
\* not, under one of the three field names, or no quantity at all
QtyValues == {Txt} \cup {Num(n) : n \in (0 - 1)..MaxQty}

ListEntries ==
    {Entry(suc, v, Undef, Undef) : suc \in Sucursales, v \in QtyValues}
    \cup {Entry(suc, Undef, v, Undef) : suc \in Sucursales, v \in QtyValues}
    \cup {Entry(suc, Undef, Null, v) : suc \in Sucursales, v \in QtyValues}
    \cup {Entry(suc, Undef, Undef, Undef) : suc \in Sucursales}

StockLists == {NullList, ObjectList} \cup {Arr(q) : q \in SeqUpTo(ListEntries, MaxStock)}

InitItem ==
    /\ route = "none" /\ query = "" /\ pc = "calc"
    /\ catalogo = Idle /\ inventario = Idle /\ recetas = Idle /\ receta = Null
    /\ stock = <<>> /\ res = <<>> /\ issued = <<>> /\ join = Idle
    /\ s = Entry("S1", Undef, Undef, Undef)
    /\ it \in [id_producto : {"A"}, cantidad : {Undef} \cup {Num(n) : n \in 0..MaxQty}]
    /\ stockList \in StockLists
    /\ out = Idle

\* server.js:130-150  the async function of ingredient it, resumed with the
\* stock listing stockList
Reconcile ==
    /\ pc = "calc"
    /\ out = Idle
    /\ out' = ItemPromise(it, Fulfilled(stockList))
    /\ UNCHANGED <<reqVars, s, it, stockList>>

SpecItem == InitItem /\ [][Reconcile]_vars

-----------------------------------------------------------------------------
(* Properties of GET /disponibilidad.                                      *)

IsUpstreamError(p) == p.state = "rejected" /\ "response" \in DOMAIN p.reason
Is404(p)           == IsUpstreamError(p) /\ p.reason.response.status = 404

\* a response carries the status and the body of the upstream error of p
Preserves(r, p) ==
    /\ r.status = p.reason.response.status
    /\ "upstream_body" \in DOMAIN r.body
    /\ r.body.upstream_status = p.reason.response.status
    /\ r.body.upstream_body = p.reason.response.data

InventoryFailed == route = "disponibilidad" /\ IsUpstreamError(inventario) /\ ~Is404(inventario)

\* C1 as stated: once the inventory lookup failed with a non-404 upstream
\* error, the response is that error, status and body preserved, whatever
\* the catalog lookup did and in whatever order.
C1_SameErrorAlways ==
    InventoryFailed => /\ Len(res) = 1
                       /\ Preserves(res[1], inventario)

\* C1 amended: once the inventory lookup failed with a non-404 upstream
\* error the request has failed, with exactly one response and no success;
\* the response is the inventory error, status and body preserved, unless
\* the catalog lookup failed first with a failure other than a 404, and then
\* it is the mapping of that catalog failure.
C1_FirstFailureWins ==
    InventoryFailed =>
        /\ Len(res) = 1
        /\ res[1].status # 200
        /\ join.state = "rejected"
        /\ IF join.from = 2
           THEN Preserves(res[1], inventario)
           ELSE /\ catalogo.state = "rejected"
                /\ ~Is404(catalogo)
                /\ res[1].body.error \in {"Upstream error", "Upstream timeout/unreachable",
                                          "Orchestrator error"}
                /\ IsUpstreamError(catalogo) => Preserves(res[1], catalogo)
                /\ ~IsUpstreamError(catalogo) => res[1].status \in {500, 504}

\* the inventory lookup failed with a 500 after the catalog lookup had
\* answered 404, and the response is the 500
C1_Witness ==
    /\ InventoryFailed
    /\ Is404(catalogo)
    /\ res = <<[status |-> 500,
                body |-> [error |-> "Upstream error", upstream_status |-> 500,
                          upstream_body |-> "internal error"]]>>

\* C2: when the catalog lookup answered 404 and the inventory lookup
\* succeeded, in either order, the response is a success whose producto is
\* null and whose sucursales is the inventory payload as received.
C2_MissingProduct ==
    (route = "disponibilidad" /\ Is404(catalogo) /\ inventario.state = "fulfilled")
        => res = <<[status |-> 200,
                    body |-> [producto |-> Null, sucursales |-> inventario.value]]>>

\* catalog 404, and an inventory listing of two entries passed through
C2_Witness ==
    /\ route = "disponibilidad" /\ Is404(catalogo) /\ inventario.state = "fulfilled"
    /\ inventario.value = Arr(<<E1("S1", 1), E1("S2", 2)>>)
    /\ Len(res) = 1 /\ res[1].body.sucursales.arr[2].cantidad_actual = Num(2)

-----------------------------------------------------------------------------
(* Properties of the propagation of failures.                              *)

Success(r) == r.status = 200

\* C3: a success is answered only when every upstream call of the request
\* succeeded, but for a 404 of the catalog lookup of /disponibilidad; a 404
\* of the inventory or of the recipe lookup is never answered by a success.
C3_NoSuppressedFailure ==
    \A n \in 1..Len(res) :
        Success(res[n]) =>
            /\ route = "disponibilidad" =>
                  /\ inventario.state = "fulfilled"
                  /\ catalogo.state = "fulfilled" \/ Is404(catalogo)
            /\ route = "validacion" =>
                  /\ recetas.state = "fulfilled"
                  /\ \A k \in 1..Len(stock) : stock[k].state = "fulfilled"

\* a validation answered by a success after its recipe call and its two
\* stock lookups all succeeded
C3_Witness ==
    /\ route = "validacion" /\ Len(res) = 1 /\ Success(res[1])
    /\ Len(stock) = 2 /\ \A k \in 1..2 : stock[k].state = "fulfilled"

\* C4: once the stock lookup of any ingredient failed, the validation has
\* failed: a response was sent and no response is a success; and a success
\* always carries one item per ingredient of the recipe.
C4_AllOrNothing ==
    route = "validacion" =>
        /\ (\E k \in 1..Len(stock) : stock[k].state = "rejected")
              => /\ Len(res) >= 1
                 /\ \A n \in 1..Len(res) : ~Success(res[n])
        /\ \A n \in 1..Len(res) :
              Success(res[n]) => Len(res[n].body.items) = Len(Detalle(receta))

\* two ingredients: the lookup of the first succeeded, that of the second
\* failed, and the response is the failure
C4_Witness ==
    /\ route = "validacion" /\ Len(stock) = 2
    /\ stock[1].state = "fulfilled" /\ stock[2].state = "rejected"
    /\ Len(res) = 1 /\ res[1].status = 504

-----------------------------------------------------------------------------
(* Properties of the suggested status, on the responses of the handler.    *)

\* the validation was answered by a success
Validated == route = "validacion" /\ Len(res) = 1 /\ Success(res[1])

\* item i is covered: its disponible is a number at least its solicitado
Covered(i) ==
    /\ i.disponible.t = "number" /\ i.solicitado.t = "number"
    /\ i.disponible.v >= i.solicitado.v

\* item i has some stock: its disponible is a number above 0
HasStock(i) == i.disponible.t = "number" /\ i.disponible.v > 0

AllCovered(items) == \A k \in DOMAIN items : Covered(items[k])
SomeStock(items)  == \E k \in DOMAIN items : HasStock(items[k])

\* C5: the status of a validation is VALIDADA iff every item is covered,
\* PARCIAL iff not every item is covered and some item has stock, and
\* RECHAZADA in the remaining cases; it is one of the three.
C5_Estado ==
    Validated =>
        LET b == res[1].body IN
        /\ b.estado_sugerido \in {"VALIDADA", "PARCIAL", "RECHAZADA"}
        /\ b.estado_sugerido = "VALIDADA" <=> AllCovered(b.items)
        /\ b.estado_sugerido = "PARCIAL" <=> (~AllCovered(b.items) /\ SomeStock(b.items))
        /\ b.estado_sugerido = "RECHAZADA" <=> (~AllCovered(b.items) /\ ~SomeStock(b.items))

\* two items, the first covered, the second with stock but not covered:
\* PARCIAL
C5_Witness ==
    /\ Validated
    /\ Len(res[1].body.items) = 2
    /\ Covered(res[1].body.items[1])
    /\ ~Covered(res[1].body.items[2]) /\ HasStock(res[1].body.items[2])
    /\ res[1].body.estado_sugerido = "PARCIAL"

AllZero(items) == \A k \in DOMAIN items : items[k].disponible = Num(0)

\* C6 as stated: a validation in which every ingredient has disponible = 0
\* has the status RECHAZADA (read on recipes of at least one ingredient).
C6_AllZeroRejected ==
    (Validated /\ Len(res[1].body.items) >= 1 /\ AllZero(res[1].body.items))
        => res[1].body.estado_sugerido = "RECHAZADA"

\* C6 amended: a validation in which every ingredient has disponible = 0
\* and at least one ingredient has a solicitado that is not <= 0 (positive,
\* or no number) has the status RECHAZADA.
C6_AllZeroSomeRequested ==
    (/\ Validated
     /\ AllZero(res[1].body.items)
     /\ \E k \in DOMAIN res[1].body.items :
           ~(res[1].body.items[k].solicitado.t = "number"
             /\ res[1].body.items[k].solicitado.v <= 0))
        => res[1].body.estado_sugerido = "RECHAZADA"

\* two ingredients without any stock, one asking for 0 and one for 2:
\* RECHAZADA
C6_Witness ==
    /\ Validated
    /\ Len(res[1].body.items) = 2
    /\ AllZero(res[1].body.items)
    /\ res[1].body.items[1].solicitado = Num(0)
    /\ res[1].body.items[2].solicitado = Num(2)
    /\ res[1].body.estado_sugerido = "RECHAZADA"

InventoryCalls == {n \in 1..Len(issued) : issued[n].svc = "inventario"}

\* C7: a recipe whose detalle is empty or absent is answered VALIDADA with
\* no item, and no inventory call is issued for it.
C7_EmptyRecipe ==
    (route = "validacion" /\ recetas.state = "fulfilled" /\ recetas.value # Null
       /\ Detalle(recetas.value) = <<>>)
        => /\ res = <<[status |-> 200,
                       body |-> [id_receta |-> recetas.value.id_receta,
                                 estado_sugerido |-> "VALIDADA", items |-> <<>>]]>>
           /\ InventoryCalls = {}
           /\ stock = <<>>

\* a recipe without detalle, answered VALIDADA after the recipe call alone
C7_Witness ==
    /\ route = "validacion" /\ recetas.state = "fulfilled"
    /\ recetas.value = [id_receta |-> "R1"]
    /\ Len(res) = 1 /\ res[1].body.estado_sugerido = "VALIDADA"
    /\ Len(issued) = 1

-----------------------------------------------------------------------------
(* Properties of the reconciliation of one ingredient.                     *)

\* the coerced quantity of a stock entry
Coerced(e) == Number(cantidadField(e))

\* the async function of the ingredient returned an item
Reconciled == pc = "calc" /\ out.state = "fulfilled" /\ stockList.t = "array"

\* the entries of the listing that alone cover the requested quantity
Qualifying ==
    {k \in 1..Len(stockList.arr) :
        /\ Coerced(stockList.arr[k]).t = "number"
        /\ Number(it.cantidad).t = "number"
        /\ Coerced(stockList.arr[k]).v >= Number(it.cantidad).v}

\* C8: id_sucursal_sugerida is the branch of the first entry of the listing,
\* in the order received, whose own coerced quantity is >= solicitado, and
\* null when no entry qualifies; no later entry overrides an earlier one.
C8_FirstFit ==
    Reconciled =>
        IF Qualifying = {}
        THEN out.value.id_sucursal_sugerida = NoSucursal
        ELSE \E k \in Qualifying :
                /\ \A m \in Qualifying : k <= m
                /\ out.value.id_sucursal_sugerida = stockList.arr[k].id_sucursal

\* both entries qualify, the second with the larger quantity: the first wins
C8_Witness ==
    /\ Reconciled
    /\ it.cantidad = Num(1)
    /\ stockList = Arr(<<Entry("S1", Num(1), Undef, Undef), Entry("S2", Undef, Num(2), Undef)>>)
    /\ out.value.id_sucursal_sugerida = "S1"

\* the sum of the coerced quantities of a listing, from its last entry
RECURSIVE SumCoerced(_)
SumCoerced(q) ==
    IF Len(q) = 0 THEN Num(0)
    ELSE LET front == SumCoerced(SubSeq(q, 1, Len(q) - 1))
             last  == Coerced(q[Len(q)])
         IN  IF front.t = "number" /\ last.t = "number"
             THEN Num(front.v + last.v) ELSE NaN

Negative(x) == x.t = "number" /\ x.v < 0

\* C9 as stated: disponible is the sum of the coerced quantities of all the
\* entries of the listing, and it is never negative.
C9_SumNeverNegative ==
    Reconciled => /\ out.value.disponible = SumCoerced(stockList.arr)
                  /\ ~Negative(out.value.disponible)

\* C9 amended: disponible is the sum of the coerced quantities of all the
\* entries of the listing; it is not negative when no entry of the listing
\* has a negative coerced quantity.
C9_SumOfEntries ==
    Reconciled =>
        /\ out.value.disponible = SumCoerced(stockList.arr)
        /\ (\A k \in 1..Len(stockList.arr) : ~Negative(Coerced(stockList.arr[k])))
              => ~Negative(out.value.disponible)

\* two entries naming their quantity differently: 1 + 2 = 3
C9_Witness ==
    /\ Reconciled
    /\ stockList = Arr(<<Entry("S1", Num(1), Undef, Undef), Entry("S2", Undef, Null, Num(2))>>)
    /\ out.value.disponible = Num(3)

-----------------------------------------------------------------------------
(* Properties of the coercion of one stock entry.                          *)

Fields == {"cantidad_actual", "stock_actual", "cantidad"}

\* C10: when exactly one of the three quantity fields of an entry holds a
\* number and the two others are absent, the coerced quantity is that
\* number; when none of the three is set (each absent or null), it is 0.
C10_Coercion ==
    (pc = "calc" /\ out.state = "fulfilled") =>
        /\ \A f \in Fields :
              (s[f].t = "number" /\ \A g \in Fields \ {f} : s[g] = Undef)
                  => out.value = s[f]
        /\ (\A f \in Fields : s[f] \in {Undef, Null}) => out.value = Num(0)

\* the quantity under the third name alone
C10_Witness ==
    /\ pc = "calc" /\ out.state = "fulfilled"
    /\ s = Entry("S1", Undef, Undef, Num(2))
    /\ out.value = Num(2)

-----------------------------------------------------------------------------
(* Properties of the early exits of the handlers.                          *)

\* C11: once the recipe call failed, the validation has answered that
\* failure and no stock lookup is ever issued for the request; a 404 of the
\* recipes service is answered with status 404 and upstream_status 404.
C11_RecipeFailure ==
    (route = "validacion" /\ recetas.state = "rejected") =>
        /\ Len(res) = 1
        /\ ~Success(res[1])
        /\ InventoryCalls = {}
        /\ stock = <<>>
        /\ Is404(recetas) => /\ res[1].status = 404
                             /\ res[1].body.upstream_status = 404

\* the recipes service answered 404 and so did the handler, after the
\* recipe call alone
C11_Witness ==
    /\ route = "validacion" /\ Is404(recetas)
    /\ Len(res) = 1 /\ res[1].status = 404
    /\ issued = <<[svc |-> "recetas", id |-> "R1"]>>

\* C12: a request of /disponibilidad without id_producto (missing or empty)
\* is answered 400 with an error field, and neither the catalog nor the
\* inventory lookup is ever issued for it.
C12_InvalidArgument ==
    (route = "disponibilidad" /\ query = "") =>
        /\ Len(res) = 1
        /\ res[1].status = 400
        /\ "error" \in DOMAIN res[1].body
        /\ issued = <<>>
        /\ catalogo.state = "idle" /\ inventario.state = "idle"

\* the request without id_producto, answered 400
C12_Witness ==
    /\ route = "disponibilidad" /\ query = "" /\ pc = "sent"
    /\ res = <<[status |-> 400, body |-> [error |-> "id_producto requerido"]]>>

-----------------------------------------------------------------------------
(* Properties of the mapping of failures.                                  *)

\* the request failed in a catch block (not on the guard of id_producto)
Caught ==
    /\ Len(res) >= 1 /\ ~Success(res[1])
    /\ ~(route = "disponibilidad" /\ query = "")

\* the failure the catch block received
CaughtError ==
    IF route = "validacion" /\ recetas.state = "rejected" THEN recetas.reason
    ELSE IF route = "validacion" /\ recetas.state = "fulfilled" /\ recetas.value = Null
         THEN [text |-> "TypeError: cannot read properties"]
    ELSE join.reason

\* C13: the response of a failed request is the mapping of its failure: a
\* failure with an upstream response gives the status of that response and
\* the body {error: "Upstream error", upstream_status, upstream_body}; one
\* with a request and no response gives 504; any other gives 500.  Every
\* response that is no success has an error field.
C13_ErrorMapping ==
    /\ \A n \in 1..Len(res) : ~Success(res[n]) => "error" \in DOMAIN res[n].body
    /\ Caught =>
          LET e == CaughtError
              r == res[1]
          IN  /\ "response" \in DOMAIN e =>
                    r = [status |-> e.response.status,
                         body |-> [error |-> "Upstream error",
                                   upstream_status |-> e.response.status,
                                   upstream_body |-> e.response.data]]
              /\ ("response" \notin DOMAIN e /\ "request" \in DOMAIN e) =>
                    /\ r.status = 504
                    /\ r.body = [error |-> "Upstream timeout/unreachable"]
              /\ ("response" \notin DOMAIN e /\ "request" \notin DOMAIN e) =>
                    /\ r.status = 500
                    /\ r.body.error = "Orchestrator error"
                    /\ r.body.detail = e.text

\* /disponibilidad whose inventory lookup answered 500 first: the response
\* carries the status and the body of the upstream
C13_Witness ==
    /\ route = "disponibilidad" /\ join.state = "rejected" /\ join.from = 2
    /\ catalogo.state = "pending"
    /\ res = <<[status |-> 500,
                body |-> [error |-> "Upstream error", upstream_status |-> 500,
                          upstream_body |-> "internal error"]]>>

-----------------------------------------------------------------------------
(* Properties of the order of the items.                                   *)

\* the entries of listing q that alone cover the quantity c of an ingredient
QualifyingIn(q, c) ==
    {k \in 1..Len(q) :
        /\ Coerced(q[k]).t = "number"
        /\ Number(c).t = "number"
        /\ Coerced(q[k]).v >= Number(c).v}

\* item i is the one of ingredient g reconciled with the listing q
BuiltFrom(i, g, q) ==
    /\ i.id_producto = g.id_producto
    /\ i.solicitado = Number(g.cantidad)
    /\ i.disponible = SumCoerced(q)
    /\ IF QualifyingIn(q, g.cantidad) = {}
       THEN i.id_sucursal_sugerida = NoSucursal
       ELSE \E k \in QualifyingIn(q, g.cantidad) :
               /\ \A m \in QualifyingIn(q, g.cantidad) : k <= m
               /\ i.id_sucursal_sugerida = q[k].id_sucursal

\* C14: in a successful validation, items has the length and the order of
\* the detalle of the recipe: item k is built from ingredient k and from the
\* listing answered to the stock lookup issued for the product of ingredient
\* k.  The items are so a function of the recipe and of the listings alone,
\* the same in every order of completion of the lookups.
C14_IngredientOrder ==
    Validated =>
        LET d == Detalle(receta) IN
        /\ Len(res[1].body.items) = Len(d)
        /\ Len(stock) = Len(d)
        /\ Len(issued) = 1 + Len(d)
        /\ \A k \in 1..Len(d) :
              /\ issued[1 + k] = [svc |-> "inventario", id |-> d[k].id_producto]
              /\ BuiltFrom(res[1].body.items[k], d[k], stock[k].value.arr)

\* ingredients A then B with different listings: the items are those of A
\* then of B
C14_Witness ==
    /\ Validated
    /\ Len(Detalle(receta)) = 2
    /\ Detalle(receta)[1] = [id_producto |-> "A", cantidad |-> Num(2)]
    /\ Detalle(receta)[2] = [id_producto |-> "B", cantidad |-> Num(0)]
    /\ stock[1].value = Arr(<<E1("S1", 1), E1("S2", 2)>>)
    /\ stock[2].value = Arr(<<E1("S1", 1)>>)
    /\ res[1].body.items[1] = [id_producto |-> "A", solicitado |-> Num(2),
                               disponible |-> Num(3), id_sucursal_sugerida |-> "S2"]
    /\ res[1].body.items[2] = [id_producto |-> "B", solicitado |-> Num(0),
                               disponible |-> Num(1), id_sucursal_sugerida |-> "S1"]

-----------------------------------------------------------------------------
(* Properties of the abort of a join group.                                *)

RejectedStock == {k \in 1..Len(stock) : stock[k].state = "rejected"}

\* C15 as stated, in the states where one fetch of the join group has
\* failed and no other has: the request has been aborted with the failure
\* of that fetch.
C15_AnyFetchFailureAborts ==
    /\ (route = "disponibilidad" /\ catalogo.state = "rejected"
          /\ inventario.state # "rejected")
          => res = <<mapUpstreamError(catalogo.reason)>>
    /\ (route = "disponibilidad" /\ inventario.state = "rejected"
          /\ catalogo.state # "rejected")
          => res = <<mapUpstreamError(inventario.reason)>>
    /\ (route = "validacion" /\ Cardinality(RejectedStock) = 1)
          => \A k \in RejectedStock : res = <<mapUpstreamError(stock[k].reason)>>

\* the step makes lookup p (p2 after the step) fail
Fails(p, p2) == p.state = "pending" /\ p2.state = "rejected"

\* the step makes the async function of an ingredient throw on its listing
Throws(p, p2) == p.state = "pending" /\ p2.state = "fulfilled" /\ p2.value.t = "object"

\* the request is aborted by this step with the failure e
AbortsWith(e) == res = <<>> /\ res' = <<mapUpstreamError(e)>> /\ pc' = "sent"

\* C15 amended: when a promise of a join group rejects - a lookup of
\* /disponibilidad that fails, but for the catalog 404, which aborts nothing;
\* the stock lookup of an ingredient that fails, or its reconciliation that
\* throws on a listing that is no array - and no promise of the group
\* rejected before, the request is aborted by that very step with that
\* failure, its siblings still in flight or not.  A response once sent never
\* changes: what the siblings answer later is discarded.
C15_FirstRejectionWins ==
    [][/\ res # <<>> => res' = res
       /\ join.state \in {"fulfilled", "rejected"} => (res # <<>> /\ join' = join)
       /\ (route = "disponibilidad" /\ join.state = "pending") =>
             /\ (Fails(catalogo, catalogo') /\ ~Is404(catalogo'))
                   => AbortsWith(catalogo'.reason)
             /\ (Fails(catalogo, catalogo') /\ Is404(catalogo'))
                   => (res' = <<>> \/ Success(res'[1]))
             /\ Fails(inventario, inventario') => AbortsWith(inventario'.reason)
       /\ (route = "validacion" /\ join.state = "pending") =>
             \A k \in 1..Len(stock) :
                /\ Fails(stock[k], stock'[k]) => AbortsWith(stock'[k].reason)
                /\ Throws(stock[k], stock'[k])
                      => AbortsWith([text |-> "TypeError: cannot read properties"])
      ]_vars

\* the lookup of the second ingredient failed first (unreachable), that of
\* the first failed later (404): the response is the 504 of the second
C15_Witness ==
    /\ route = "validacion" /\ Len(stock) = 2
    /\ join.state = "rejected" /\ join.from = 2
    /\ stock[2].state = "rejected" /\ "response" \notin DOMAIN stock[2].reason
    /\ Is404(stock[1])
    /\ res = <<[status |-> 504, body |-> [error |-> "Upstream timeout/unreachable"]]>>

-----------------------------------------------------------------------------
(* Properties of the upstream calls issued.                                *)

Calls(svc) == {n \in 1..Len(issued) : issued[n].svc = svc}

\* C16: in /disponibilidad with an id_producto, both lookups are issued
\* before either completes: in no state has one lookup been answered while
\* the other is not started, and the inventory lookup is issued also when
\* the catalog lookup fails.
C16_BothIssuedFirst ==
    (route = "disponibilidad" /\ query # "") =>
        /\ catalogo.state # "idle" /\ inventario.state # "idle"
        /\ issued = <<[svc |-> "catalogo", id |-> query],
                      [svc |-> "inventario", id |-> query]>>
        /\ catalogo.state \in {"fulfilled", "rejected"}
              => inventario.state \in {"pending", "fulfilled", "rejected"}
        /\ inventario.state \in {"fulfilled", "rejected"}
              => catalogo.state \in {"pending", "fulfilled", "rejected"}

\* the catalog lookup failed with a 500 while the inventory lookup, issued
\* with it, is still in flight
C16_Witness ==
    /\ route = "disponibilidad"
    /\ IsUpstreamError(catalogo) /\ ~Is404(catalogo)
    /\ inventario.state = "pending"
    /\ Calls("inventario") = {2}

-----------------------------------------------------------------------------
(* Properties of the response.                                             *)

\* C18: provided every call issued settles, every request is answered, and
\* answered once: no interleaving of the answers of the lookups sends a
\* second response or leaves the request without one.
C18_ExactlyOneResponse ==
    /\ [](Len(res) <= 1)
    /\ (route # "none") ~> (Len(res) = 1)
    /\ [][res # <<>> => res' = res]_vars

\* /disponibilidad answered once although both its lookups failed
C18_Witness ==
    /\ route = "disponibilidad"
    /\ catalogo.state = "rejected" /\ ~Is404(catalogo)
    /\ inventario.state = "rejected"
    /\ Len(res) = 1

\* every entry of the listing has a coerced quantity that is a number, 0 or more
NonNegativeStock ==
    \A k \in 1..Len(stockList.arr) :
        Coerced(stockList.arr[k]).t = "number" /\ Coerced(stockList.arr[k]).v >= 0

Suggested(i) == i.id_sucursal_sugerida # NoSucursal

\* C19: when the coerced quantities of the listing are non-negative integers,
\* an item with a suggested branch has disponible >= solicitado, so a result
\* whose items all have a suggested branch is VALIDADA.
C19_SuggestedIsCovered ==
    (Reconciled /\ NonNegativeStock /\ Suggested(out.value)) =>
        /\ Covered(out.value)
        /\ Gte(out.value.disponible, out.value.solicitado)
        /\ estado_sugerido(<<out.value>>) = "VALIDADA"

\* 2 requested, 1 in S1 and 2 in S2: S2 is suggested and 3 are available
C19_Witness ==
    /\ Reconciled /\ NonNegativeStock
    /\ it.cantidad = Num(2)
    /\ stockList = Arr(<<Entry("S1", Num(1), Undef, Undef), Entry("S2", Num(2), Undef, Undef)>>)
    /\ out.value.id_sucursal_sugerida = "S2"
    /\ out.value.disponible = Num(3)

\* the converse fails: 2 requested, 1 in each of two branches, so the item is
\* covered and the result VALIDADA with no branch suggested
C19_FeasibleNotSuggested ==
    /\ Reconciled /\ NonNegativeStock
    /\ it.cantidad = Num(2)
    /\ stockList = Arr(<<Entry("S1", Num(1), Undef, Undef), Entry("S2", Num(1), Undef, Undef)>>)
    /\ ~Suggested(out.value)
    /\ Covered(out.value)
    /\ estado_sugerido(<<out.value>>) = "VALIDADA"

\* the condition on the listing is needed: a negative entry after the one
\* that qualifies takes disponible below solicitado
C19_NegativeEntry ==
    /\ Reconciled /\ ~NonNegativeStock
    /\ Suggested(out.value)
    /\ ~Covered(out.value)

=============================================================================
